---- MODULE Spec2Model ----
(***************************************************************************)
(* Model of fcm_send.py: the FCMClient class (credential resolution, lazy  *)
(* SDK initialization, token retrieval, message sending) and CLIHandler    *)
(* (mode dispatch and exit codes).                                         *)
(*                                                                         *)
(* Two specifications share the state:                                     *)
(*   Spec        one command-line invocation: CLIHandler() then run()      *)
(*   SpecClient  any bounded sequence of method calls on one FCMClient     *)
(*                                                                         *)
(* The Firebase Admin SDK and the remote service are a black box: every    *)
(* call into them is logged in `remote` and its result is drawn from the   *)
(* outcomes the SDK documents.                                             *)
(***************************************************************************)
EXTENDS Integers, Sequences, FiniteSets

VARIABLES
    args,       \* argparse namespace (self.args)
    files,      \* file system: path -> content of the file
    environ,    \* os.environ["GOOGLE_APPLICATION_CREDENTIALS"] (NONE = unset)
    client,     \* FCMClient fields
    apps,       \* number of apps registered in firebase_admin._apps
    loads,      \* how many times the credential file was opened and json.load-ed
    resolved,   \* credentials_path has returned a path (history)
    remote,     \* log of the calls made into the SDK / remote service
    sends,      \* messages handed to messaging.send, with their dry_run
    pc,         \* "run" before CLIHandler.run, "done" after exit, "api" in SpecClient
    exit_code,  \* process exit status, -1 while running
    outcome,    \* how the invocation ended (error kind, "ok" or "help")
    mode,       \* branch of CLIHandler.run that was taken
    handlers,   \* handler methods run() has called
    calls,      \* number of client method calls made (SpecClient)
    result      \* name, exception and return value of the last client method call

vars == <<args, files, environ, client, apps, loads, resolved, remote, sends,
          pc, exit_code, outcome, mode, handlers, calls, result>>

----------------------------------------------------------------------------
(* Values *)

\* Python's None, and an unset environment variable (os.environ.get -> None)
NONE == "<None>"

\* bound: number of client method calls in SpecClient
MaxCalls == 3

\* Python truthiness of an Optional[str]: None and "" are falsy
Truthy(s) == s # NONE /\ s # ""

EmptyObj == [k \in {} |-> ""]

NoneVal == [kind |-> "None", obj |-> EmptyObj]

ObjVal(f) == [kind |-> "obj", obj |-> f]

\* Python truthiness of an Optional[dict]: None and {} are falsy
DictTruthy(d) == d.kind = "obj" /\ DOMAIN d.obj # {}

\* dict.get(key, default)
DictGet(d, key, default) == IF key \in DOMAIN d.obj THEN d.obj[key] ELSE default

(* Credential files *)
PathA == "a.json"
PathB == "b.json"
Paths == {PathA, PathB}

Missing == [kind |-> "missing", obj |-> EmptyObj]
Malformed == [kind |-> "malformed", obj |-> EmptyObj]
FullPayload == [k \in {"project_id", "client_email"} |->
                  IF k = "project_id" THEN "demo" ELSE "x@y.iam"]
Payloads == {EmptyObj,
             [k \in {"project_id"} |-> "demo"],
             [k \in {"client_email"} |-> "x@y.iam"],
             FullPayload}
JsonFile(f) == [kind |-> "json", obj |-> f]
Contents == {Missing, Malformed} \cup {JsonFile(f) : f \in Payloads}

\* os.path.exists
Exists(p) == p \in DOMAIN files /\ files[p].kind # "missing"

(* JSON texts given to --data / --data-only, and json.loads on them *)
BadJson == "{bad"
EmptyJson == "{}"
ObjJson == "{\"n\": 5, \"s\": \"x\", \"b\": true, \"z\": null}"
ArrJson == "[1]"

IntV(lit) == [t |-> "int", lit |-> lit]
StrV(lit) == [t |-> "str", lit |-> lit]
BoolV(lit) == [t |-> "bool", lit |-> lit]
NullV == [t |-> "null", lit |-> "null"]

ObjJsonValue == [k \in {"n", "s", "b", "z"} |->
                   CASE k = "n" -> IntV("5")
                     [] k = "s" -> StrV("x")
                     [] k = "b" -> BoolV("true")
                     [] k = "z" -> NullV]

JsonLoads(s) ==
    CASE s = EmptyJson -> ObjVal(EmptyObj)
      [] s = ObjJson   -> ObjVal(ObjJsonValue)
      [] s = ArrJson   -> [kind |-> "array", obj |-> EmptyObj]
      [] OTHER         -> [kind |-> "JSONDecodeError", obj |-> EmptyObj]

\* Python's str(v) on a value json.loads produced
PyStr(v) ==
    CASE v.t = "str"  -> v.lit
      [] v.t = "int"  -> v.lit
      [] v.t = "bool" -> IF v.lit = "true" THEN "True" ELSE "False"
      [] v.t = "null" -> "None"

\* {k: str(v) for k, v in data.items()}
StringData_NoCoercion(d) == d
StringData(d) == ObjVal([k \in DOMAIN d.obj |-> StrV(PyStr(d.obj[k]))])

----------------------------------------------------------------------------
(* The mutable world the client methods act on *)

World == [environ |-> environ, client |-> client, apps |-> apps, loads |-> loads,
          resolved |-> resolved, remote |-> remote, sends |-> sends]

Commit(w) ==
    /\ environ' = w.environ
    /\ client' = w.client
    /\ apps' = w.apps
    /\ loads' = w.loads
    /\ resolved' = w.resolved
    /\ remote' = w.remote
    /\ sends' = w.sends

Return(w, v) == [w |-> w, exc |-> "none", val |-> v]
Raise(w, e) == [w |-> w, exc |-> e, val |-> ""]

\* FCMClient(credentials_key_file)
NewClient(ckf) ==
    [credentials_key_file |-> ckf, credentials_info |-> NoneVal, initialized |-> FALSE]

\* a call into the SDK, with what held at the moment of the call
Logged(w, call, ok) ==
    [w EXCEPT !.remote = Append(@,
        [call |-> call,
         ok |-> ok,
         env |-> w.environ,
         validated |-> w.resolved /\ w.client.credentials_info.kind = "obj",
         apps_before |-> w.apps,
         initialized_before |-> w.client.initialized])]

----------------------------------------------------------------------------
(* FCMClient *)

\* the path credentials_path selects, before it is checked
SelectedPath_EnvFirst(w) ==
    IF Truthy(w.environ) THEN w.environ ELSE w.client.credentials_key_file
SelectedPath(w) ==
    IF Truthy(w.client.credentials_key_file)
    THEN w.client.credentials_key_file
    ELSE w.environ

\* property credentials_path
CredentialsPath(w) ==
    LET creds_path == SelectedPath(w)
    IN  IF ~Truthy(creds_path) THEN Raise(w, "EnvironmentError")
        ELSE IF ~Exists(creds_path) THEN Raise(w, "FileNotFoundError")
        ELSE Return([w EXCEPT !.resolved = TRUE], creds_path)

\* property credentials_info: val is the cached dict
CredentialsInfo(w) ==
    IF w.client.credentials_info = NoneVal
    THEN LET p == CredentialsPath(w)
         IN  IF p.exc # "none" THEN p
             ELSE LET opened == [p.w EXCEPT !.loads = @ + 1]
                  IN  IF files[p.val].kind = "malformed"
                      THEN Raise(opened, "JSONDecodeError")
                      ELSE Return([opened EXCEPT !.client.credentials_info =
                                                   ObjVal(files[p.val].obj)],
                                  ObjVal(files[p.val].obj))
    ELSE Return(w, w.client.credentials_info)

\* the body shared by the properties project_id and service_account_email
InfoField(w, key) ==
    LET c == CredentialsInfo(w)
    IN  IF c.exc # "none" THEN c
        ELSE IF DictTruthy(c.val)
             THEN Return(c.w, DictGet(c.val, key, "N/A"))
             ELSE Return(c.w, "")

ProjectId(w) == InfoField(w, "project_id")

ServiceAccountEmail(w) == InfoField(w, "client_email")

\* initialize(); init_ok: whether firebase_admin.initialize_app() returns
Initialize_NoLatch(w, init_ok) ==
    LET w1 == IF Truthy(w.client.credentials_key_file)
              THEN [w EXCEPT !.environ = w.client.credentials_key_file]
              ELSE w
        w2 == Logged(w1, "initialize_app", init_ok)
    IN  IF init_ok
        THEN Return([w2 EXCEPT !.apps = @ + 1, !.client.initialized = TRUE], "")
        ELSE Raise(w2, "ValueError")
Initialize_NoEnv(w, init_ok) ==
    IF ~w.client.initialized /\ w.apps = 0
    THEN LET w2 == Logged(w, "initialize_app", init_ok)
         IN  IF init_ok
             THEN Return([w2 EXCEPT !.apps = @ + 1, !.client.initialized = TRUE], "")
             ELSE Raise(w2, "ValueError")
    ELSE Return(w, "")
Initialize(w, init_ok) ==
    IF ~w.client.initialized /\ w.apps = 0
    THEN LET w1 == IF Truthy(w.client.credentials_key_file)
                   THEN [w EXCEPT !.environ = w.client.credentials_key_file]
                   ELSE w
             w2 == Logged(w1, "initialize_app", init_ok)
         IN  IF init_ok
             THEN Return([w2 EXCEPT !.apps = @ + 1, !.client.initialized = TRUE], "")
             ELSE Raise(w2, "ValueError")
    ELSE Return(w, "")

\* results of a token request to the identity service
TokenResults == {"ok", "RemoteAuthError"}

\* get_access_token()
GetAccessToken(w, init_ok, tok) ==
    LET i == Initialize(w, init_ok)
    IN  IF i.exc # "none" THEN i
        ELSE LET w1 == Logged(i.w, "get_access_token", tok = "ok")
             IN  IF tok = "ok" THEN Return(w1, "admin-token") ELSE Raise(w1, tok)

\* get_access_token_http_api()
GetAccessTokenHttpApi(w, init_ok, tok) ==
    LET i == Initialize(w, init_ok)
    IN  IF i.exc # "none" THEN i
        ELSE LET p == CredentialsPath(i.w)
             IN  IF p.exc # "none" THEN p
                 ELSE IF files[p.val].kind = "malformed"
                      THEN Raise(p.w, "ValueError")
                      ELSE LET w1 == Logged(p.w, "certificate_get_access_token", tok = "ok")
                           IN  IF tok = "ok" THEN Return(w1, "http-token")
                               ELSE Raise(w1, tok)

\* show_info(access_token_type): val is the exception the try block swallowed
ShowInfo(w, access_token_type, init_ok, tok) ==
    LET r1 == ProjectId(w)
    IN  IF r1.exc # "none" THEN r1
        ELSE LET r2 == ServiceAccountEmail(r1.w)
             IN  IF r2.exc # "none" THEN r2
                 ELSE LET r3 == CredentialsPath(r2.w)
                      IN  IF r3.exc # "none" THEN r3
                          ELSE LET r4 == IF access_token_type = "fcm_http_api"
                                         THEN GetAccessTokenHttpApi(r3.w, init_ok, tok)
                                         ELSE GetAccessToken(r3.w, init_ok, tok)
                               IN  Return(r4.w, r4.exc)

\* results of messaging.send
SendResults == {"ok", "UnregisteredError", "SenderIdMismatchError", "FirebaseError"}

\* messaging.send(message, dry_run=dry_run)
MessagingSend(w, message, dry_run, res) ==
    LET w1 == Logged(w, "messaging.send", res = "ok")
        w2 == [w1 EXCEPT !.sends = Append(@, [message |-> message, dry_run |-> dry_run])]
    IN  IF res = "ok" THEN Return(w2, "message-id") ELSE Raise(w2, res)

\* send_notification(fcm_token, title, body, data, image_url, dry_run)
SendNotification(w, fcm_token, title, body, data, image_url, dry_run, init_ok, res) ==
    LET i == Initialize(w, init_ok)
    IN  IF i.exc # "none" THEN i
        ELSE MessagingSend(i.w,
                 [kind |-> "notification", token |-> fcm_token, title |-> title,
                  body |-> body, image |-> image_url, data |-> data],
                 dry_run, res)

\* send_data_message(fcm_token, data, dry_run)
SendDataMessage_DryRunDropped(w, fcm_token, data, dry_run, init_ok, res) ==
    LET i == Initialize(w, init_ok)
    IN  IF i.exc # "none" THEN i
        ELSE IF data.kind # "obj" THEN Raise(i.w, "AttributeError")
        ELSE MessagingSend(i.w,
                 [kind |-> "data", token |-> fcm_token, title |-> NONE,
                  body |-> NONE, image |-> NONE, data |-> StringData(data)],
                 FALSE, res)
SendDataMessage(w, fcm_token, data, dry_run, init_ok, res) ==
    LET i == Initialize(w, init_ok)
    IN  IF i.exc # "none" THEN i
        ELSE IF data.kind # "obj" THEN Raise(i.w, "AttributeError")
        ELSE MessagingSend(i.w,
                 [kind |-> "data", token |-> fcm_token, title |-> NONE,
                  body |-> NONE, image |-> NONE, data |-> StringData(data)],
                 dry_run, res)

----------------------------------------------------------------------------
(* CLIHandler: one invocation *)

KeyFileArgs == {NONE, PathA}
EnvValues == {NONE, PathB}
TokenArgs == {NONE, "", "tok"}
TitleArgs == {NONE, "T"}
BodyArgs == {NONE, "B"}
DataArgs == {NONE, BadJson, ObjJson}
DataOnlyArgs == {NONE, "", BadJson, ObjJson, ArrJson}
ImageArgs == {NONE}

\* the credential files of an invocation
CliFiles ==
    {f \in [Paths -> Contents] :
        /\ f[PathA] \in {Missing, Malformed, JsonFile(FullPayload)}
        /\ f[PathB] \in {Missing, JsonFile(FullPayload)}}

\* the namespaces parse_args() can return
ArgSpace ==
    [credentials_key_file : KeyFileArgs,
     info : BOOLEAN, access_token : BOOLEAN,
     info_http : BOOLEAN, access_token_http : BOOLEAN,
     token : TokenArgs, title : TitleArgs, body : BodyArgs,
     data : DataArgs, data_only : DataOnlyArgs, image : ImageArgs,
     dry_run : BOOLEAN]

NoResult == [op |-> "none", exc |-> "none", val |-> ""]

\* the state after CLIHandler.__init__ in a fresh process
Init ==
    /\ args \in ArgSpace
    /\ files \in CliFiles
    /\ environ \in EnvValues
    /\ client = NewClient(args.credentials_key_file)
    /\ apps = 0
    /\ loads = 0
    /\ resolved = FALSE
    /\ remote = << >>
    /\ sends = << >>
    /\ pc = "run"
    /\ exit_code = -1
    /\ outcome = "running"
    /\ mode = "none"
    /\ handlers = {}
    /\ calls = 0
    /\ result = NoResult

\* the process ends: sys.exit(code), parser.error, an uncaught exception, or main returns
Exit(code, kind) ==
    /\ pc' = "done"
    /\ exit_code' = code
    /\ outcome' = kind

\* the if-chain of run(): which branch is taken
RunMode_TokenBeforeDataOnly(a) ==
    IF a.info \/ a.access_token THEN "info"
    ELSE IF a.info_http \/ a.access_token_http THEN "info_http"
    ELSE IF Truthy(a.token) THEN "notification"
    ELSE IF Truthy(a.data_only) THEN "data_only"
    ELSE "help"
RunMode(a) ==
    IF a.info \/ a.access_token THEN "info"
    ELSE IF a.info_http \/ a.access_token_http THEN "info_http"
    ELSE IF Truthy(a.data_only) THEN "data_only"
    ELSE IF Truthy(a.token) THEN "notification"
    ELSE "help"

\* run(), data-only branch: not self.args.token
DataOnlyArgsMissing(a) == ~Truthy(a.token)

\* run(), notification branch: not self.args.title or not self.args.body
NotificationArgsMissing_TitleOnly(a) == ~Truthy(a.title)
NotificationArgsMissing(a) == ~Truthy(a.title) \/ ~Truthy(a.body)

\* the error kind of an exception messaging.send (or the client) raised
SendErrorKind(exc) ==
    CASE exc = "UnregisteredError"     -> "UnregisteredTokenError"
      [] exc = "SenderIdMismatchError" -> "SenderMismatchError"
      [] OTHER                         -> "RemoteSendError"

\* handle_info(access_token_type)
HandleInfo(access_token_type) ==
    \E init_ok \in BOOLEAN, tok \in TokenResults :
        LET r == ShowInfo(World, access_token_type, init_ok, tok)
        IN  /\ Commit(r.w)
            /\ IF r.exc = "EnvironmentError" THEN Exit(1, "ConfigurationError")
               ELSE IF r.exc = "FileNotFoundError" THEN Exit(1, "NotFoundError")
               ELSE IF r.exc # "none" THEN Exit(1, "ParseError")
               ELSE IF r.val # "none" THEN Exit(0, "RemoteAuthError")
               ELSE Exit(0, "ok")

\* handle_data_only(args)
HandleDataOnly ==
    LET data == JsonLoads(args.data_only)
    IN  IF data.kind = "JSONDecodeError"
        THEN /\ Exit(1, "ParseError")
             /\ Commit(World)
        ELSE \E init_ok \in BOOLEAN, res \in SendResults :
                 LET r == SendDataMessage(World, args.token, data, args.dry_run,
                                          init_ok, res)
                 IN  /\ Commit(r.w)
                     /\ IF r.exc = "none" THEN Exit(0, "ok")
                        ELSE Exit(1, SendErrorKind(r.exc))

\* handle_notification(args)
HandleNotification ==
    LET parsed == IF Truthy(args.data) THEN JsonLoads(args.data) ELSE NoneVal
    IN  IF parsed.kind = "JSONDecodeError" \/ parsed.kind = "array"
        THEN /\ Exit(1, "ParseError")
             /\ Commit(World)
        ELSE \E init_ok \in BOOLEAN, res \in SendResults :
                 LET data == IF parsed.kind = "obj" THEN StringData(parsed) ELSE NoneVal
                     r == SendNotification(World, args.token, args.title, args.body,
                                           data, args.image, args.dry_run, init_ok, res)
                 IN  /\ Commit(r.w)
                     /\ IF r.exc = "none" THEN Exit(0, "ok")
                        ELSE Exit(1, SendErrorKind(r.exc))

\* run(): show-info mode with the Firebase Admin SDK access token
RunInfo ==
    /\ pc = "run"
    /\ RunMode(args) = "info"
    /\ mode' = "info"
    /\ handlers' = handlers \cup {"handle_info"}
    /\ HandleInfo("firebase_admin")
    /\ UNCHANGED <<args, files, calls, result>>

\* run(): show-info mode with the Google OAuth2 (HTTP) access token
RunInfoHttp ==
    /\ pc = "run"
    /\ RunMode(args) = "info_http"
    /\ mode' = "info_http"
    /\ handlers' = handlers \cup {"handle_info_http"}
    /\ HandleInfo("fcm_http_api")
    /\ UNCHANGED <<args, files, calls, result>>

\* run(): data-only message mode
RunDataOnly ==
    /\ pc = "run"
    /\ RunMode(args) = "data_only"
    /\ mode' = "data_only"
    /\ IF DataOnlyArgsMissing(args)
       THEN /\ Exit(2, "UsageError")
            /\ Commit(World)
            /\ UNCHANGED handlers
       ELSE /\ handlers' = handlers \cup {"handle_data_only"}
            /\ HandleDataOnly
    /\ UNCHANGED <<args, files, calls, result>>

\* run(): regular notification mode
RunNotification ==
    /\ pc = "run"
    /\ RunMode(args) = "notification"
    /\ mode' = "notification"
    /\ IF NotificationArgsMissing(args)
       THEN /\ Exit(2, "UsageError")
            /\ Commit(World)
            /\ UNCHANGED handlers
       ELSE /\ handlers' = handlers \cup {"handle_notification"}
            /\ HandleNotification
    /\ UNCHANGED <<args, files, calls, result>>

\* run(): no valid action specified, print_help()
RunHelp ==
    /\ pc = "run"
    /\ RunMode(args) = "help"
    /\ mode' = "help"
    /\ Exit(0, "help")
    /\ Commit(World)
    /\ UNCHANGED <<args, files, handlers, calls, result>>

Next == RunInfo \/ RunInfoHttp \/ RunDataOnly \/ RunNotification \/ RunHelp

Spec == Init /\ [][Next]_vars

----------------------------------------------------------------------------
(* FCMClient used as a library: any sequence of method calls on one client *)

ClientKeyFiles == {NONE, "", PathA, PathB}
ClientEnvValues == {NONE, "", PathA, PathB}

\* the credential files a client may find
ClientFiles ==
    {f \in [Paths -> Contents] : f[PathB] \in {Missing, JsonFile(FullPayload)}}

NoArgs ==
    [credentials_key_file |-> NONE,
     info |-> FALSE, access_token |-> FALSE,
     info_http |-> FALSE, access_token_http |-> FALSE,
     token |-> NONE, title |-> NONE, body |-> NONE,
     data |-> NONE, data_only |-> NONE, image |-> NONE,
     dry_run |-> FALSE]

\* a client just constructed, in a process that may already hold an SDK app
InitClient ==
    /\ args = NoArgs
    /\ files \in ClientFiles
    /\ environ \in ClientEnvValues
    /\ client \in {NewClient(ckf) : ckf \in ClientKeyFiles}
    /\ apps \in {0, 1}
    /\ loads = 0
    /\ resolved = FALSE
    /\ remote = << >>
    /\ sends = << >>
    /\ pc = "api"
    /\ exit_code = -1
    /\ outcome = "running"
    /\ mode = "none"
    /\ handlers = {}
    /\ calls = 0
    /\ result = NoResult

\* one method call: its effect on the world and what the caller sees
Called(op, r) ==
    /\ pc = "api"
    /\ calls < MaxCalls
    /\ calls' = calls + 1
    /\ Commit(r.w)
    /\ result' = [op |-> op, exc |-> r.exc, val |-> r.val]
    /\ UNCHANGED <<args, files, pc, exit_code, outcome, mode, handlers>>

CallCredentialsPath == Called("credentials_path", CredentialsPath(World))

CallProjectId == Called("project_id", ProjectId(World))

CallServiceAccountEmail == Called("service_account_email", ServiceAccountEmail(World))

CallInitialize ==
    \E init_ok \in BOOLEAN : Called("initialize", Initialize(World, init_ok))

CallGetAccessToken ==
    \E init_ok \in BOOLEAN, tok \in TokenResults :
        Called("get_access_token", GetAccessToken(World, init_ok, tok))

CallGetAccessTokenHttpApi ==
    \E init_ok \in BOOLEAN, tok \in TokenResults :
        Called("get_access_token_http_api", GetAccessTokenHttpApi(World, init_ok, tok))

CallSendNotification ==
    \E init_ok \in BOOLEAN, res \in {"ok", "FirebaseError"} :
        Called("send_notification",
               SendNotification(World, "tok", "T", "B", NoneVal, NONE, FALSE, init_ok, res))

CallSendDataMessage ==
    \E init_ok \in BOOLEAN, res \in {"ok", "FirebaseError"} :
        Called("send_data_message",
               SendDataMessage(World, "tok", ObjVal(ObjJsonValue), FALSE, init_ok, res))

NextClient ==
    \/ CallCredentialsPath
    \/ CallProjectId
    \/ CallServiceAccountEmail
    \/ CallInitialize
    \/ CallGetAccessToken
    \/ CallGetAccessTokenHttpApi
    \/ CallSendNotification
    \/ CallSendDataMessage

SpecClient == InitClient /\ [][NextClient]_vars

----------------------------------------------------------------------------
(* Properties *)

\* an option or variable "is given" / "is set": it carries a non-empty value
Given(s) == s # NONE /\ s # ""

InfoFlag == args.info \/ args.access_token
InfoHttpFlag == args.info_http \/ args.access_token_http

\* a data-only request: no show-info flag, --data-only given
DataOnlyRequest == ~InfoFlag /\ ~InfoHttpFlag /\ Given(args.data_only)

\* a notification request: no show-info flag, no --data-only, --token given
NotificationRequest ==
    ~InfoFlag /\ ~InfoHttpFlag /\ ~Given(args.data_only) /\ Given(args.token)

\* the --data / --data-only text the message of a send was built from
SourceOf(message) ==
    IF message.kind = "data" THEN JsonLoads(args.data_only)
    ELSE IF Given(args.data) THEN JsonLoads(args.data)
    ELSE NoneVal

\* C1: credentials_path returns the explicit path when one is given, else the
\* environment variable's value; it raises the configuration error when neither
\* is given and the not-found error when the selected path does not exist,
\* without falling back to the other source.
C1_CredentialPathResolution ==
    result.op = "credentials_path" =>
        LET ckf == client.credentials_key_file
        IN  /\ Given(ckf) /\ Exists(ckf) =>
                 result.exc = "none" /\ result.val = ckf
            /\ Given(ckf) /\ ~Exists(ckf) =>
                 result.exc = "FileNotFoundError"
            /\ ~Given(ckf) /\ Given(environ) /\ Exists(environ) =>
                 result.exc = "none" /\ result.val = environ
            /\ ~Given(ckf) /\ Given(environ) /\ ~Exists(environ) =>
                 result.exc = "FileNotFoundError"
            /\ ~Given(ckf) /\ ~Given(environ) =>
                 result.exc = "EnvironmentError"

\* C1 witness: both sources set to different paths, the explicit one missing and
\* the environment one present: the not-found error, no fallback
C1_Witness ==
    /\ result.op = "credentials_path"
    /\ client.credentials_key_file = PathA
    /\ environ = PathB
    /\ ~Exists(PathA)
    /\ Exists(PathB)
    /\ result.exc = "FileNotFoundError"

\* C2 (as claimed): no call into the SDK or the remote service is made unless the
\* credential path was resolved to an existing file and that file parsed as JSON;
\* with neither credential source set no such call is made at all.
C2_RemoteOnlyAfterValidation ==
    /\ \A i \in DOMAIN remote : remote[i].validated
    /\ (~Given(args.credentials_key_file) /\ ~Given(environ)) => remote = << >>

\* C3: run() takes exactly one of the five modes by the fixed precedence, runs at
\* most the handler of that mode and no other; show-info flags suppress any send,
\* --data-only wins over --data, and no flags at all prints help and exits 0.
C3_ModePrecedence ==
    pc = "done" =>
        /\ InfoFlag => mode = "info" /\ handlers = {"handle_info"}
        /\ ~InfoFlag /\ InfoHttpFlag =>
               mode = "info_http" /\ handlers = {"handle_info_http"}
        /\ DataOnlyRequest =>
               mode = "data_only" /\ handlers \subseteq {"handle_data_only"}
        /\ NotificationRequest =>
               mode = "notification" /\ handlers \subseteq {"handle_notification"}
        /\ (~InfoFlag /\ ~InfoHttpFlag /\ ~Given(args.data_only) /\ ~Given(args.token)) =>
               mode = "help" /\ handlers = {} /\ exit_code = 0 /\ outcome = "help"
        /\ (InfoFlag \/ InfoHttpFlag) => sends = << >>
        /\ DataOnlyRequest => \A i \in DOMAIN sends : sends[i].message.kind = "data"
        /\ NotificationRequest =>
               \A i \in DOMAIN sends : sends[i].message.kind = "notification"

\* C3 witness: --info together with --token, --title and --body: info shown,
\* nothing sent
C3_Witness ==
    /\ pc = "done"
    /\ args.info
    /\ Given(args.token) /\ Given(args.title) /\ Given(args.body)
    /\ mode = "info"
    /\ handlers = {"handle_info"}
    /\ sends = << >>

\* C4: a send mode with a required argument missing ends in a usage error and
\* never reaches the client: no send, no SDK call, no session, no handler.
C4_MissingArgumentsAreUsageErrors ==
    pc = "done" =>
        /\ (args.data_only # NONE /\ ~Given(args.token)) => sends = << >>
        /\ (DataOnlyRequest /\ ~Given(args.token)) =>
               /\ outcome = "UsageError"
               /\ exit_code # 0
               /\ sends = << >> /\ remote = << >> /\ handlers = {}
        /\ (NotificationRequest /\ (~Given(args.title) \/ ~Given(args.body))) =>
               /\ outcome = "UsageError"
               /\ exit_code # 0
               /\ sends = << >> /\ remote = << >> /\ handlers = {}
               /\ ~client.initialized

\* C4 witness: --token and --title given, --body missing: usage error
C4_Witness ==
    /\ pc = "done"
    /\ NotificationRequest
    /\ Given(args.title)
    /\ ~Given(args.body)
    /\ outcome = "UsageError"
    /\ sends = << >>

\* C5 (as claimed): the exit code is 0 exactly on success or help, and 1 for
\* every error kind.
C5_ExitCodes ==
    pc = "done" =>
        /\ exit_code = 0 <=> outcome \in {"ok", "help"}
        /\ outcome \notin {"ok", "help"} => exit_code = 1

\* C6: the data of every message handed to messaging.send has the key set of the
\* JSON object given as --data / --data-only and only string values: numbers
\* become their digits, strings are kept.
C6_DataValuesAreStrings ==
    \A i \in DOMAIN sends :
        LET m == sends[i].message
            src == SourceOf(m)
        IN  /\ m.kind = "data" => src.kind = "obj"
            /\ src.kind = "obj" =>
                   /\ m.data.kind = "obj"
                   /\ DOMAIN m.data.obj = DOMAIN src.obj
                   /\ \A k \in DOMAIN src.obj :
                          /\ m.data.obj[k].t = "str"
                          /\ src.obj[k].t \in {"int", "str"} =>
                                 m.data.obj[k].lit = src.obj[k].lit
            /\ src.kind # "obj" => m.data = NoneVal

\* C6 witness: a notification sent with --data holding the integer 5
C6_Witness ==
    \E i \in DOMAIN sends :
        /\ sends[i].message.kind = "notification"
        /\ args.data = ObjJson
        /\ sends[i].message.data.obj["n"] = StrV("5")

\* C7: an invocation calls messaging.send at most once, never in show-info, help
\* or usage-error outcomes; after a failed send the process has ended; the
\* dry_run passed equals the --dry-run flag.
C7_AtMostOneSend ==
    /\ Len(sends) <= 1
    /\ Cardinality({i \in DOMAIN remote : remote[i].call = "messaging.send"}) = Len(sends)
    /\ \A i \in DOMAIN sends : sends[i].dry_run = args.dry_run
    /\ sends # << >> => pc = "done"
    /\ pc = "done" =>
           /\ (mode \in {"info", "info_http", "help"} \/ outcome = "UsageError") =>
                  sends = << >>
           /\ (sends # << >> /\ ~remote[Len(remote)].ok) =>
                  /\ exit_code = 1
                  /\ outcome \in {"UnregisteredTokenError", "SenderMismatchError",
                                  "RemoteSendError"}

\* C7 witness: a data-only dry run whose send failed: one send, dry_run true
C7_Witness ==
    /\ pc = "done"
    /\ mode = "data_only"
    /\ args.dry_run
    /\ Len(sends) = 1
    /\ sends[1].dry_run
    /\ outcome = "UnregisteredTokenError"

\* C8 (as claimed): with a well-formed credential file, project_id and
\* service_account_email return the field when present and "N/A" when absent,
\* never failing, and the file is loaded at most once.
C8_AccessorsDegradeToSentinel ==
    client.credentials_info.kind = "obj" =>
        /\ loads <= 1
        /\ result.op = "project_id" =>
               /\ result.exc = "none"
               /\ result.val = IF "project_id" \in DOMAIN client.credentials_info.obj
                               THEN client.credentials_info.obj["project_id"]
                               ELSE "N/A"
        /\ result.op = "service_account_email" =>
               /\ result.exc = "none"
               /\ result.val = IF "client_email" \in DOMAIN client.credentials_info.obj
                               THEN client.credentials_info.obj["client_email"]
                               ELSE "N/A"

InitializeAppCalls == {i \in DOMAIN remote : remote[i].call = "initialize_app"}

\* C9: the SDK app is initialized at most once, initialize_app is never called
\* when an app exists or the latch is set, and once the latch is set a call of
\* initialize changes nothing.
C9_InitializeIsIdempotent ==
    /\ [](/\ apps <= 1
          /\ Cardinality({i \in InitializeAppCalls : remote[i].ok}) <= 1
          /\ \A i \in InitializeAppCalls :
                 remote[i].apps_before = 0 /\ ~remote[i].initialized_before
          /\ client.initialized => apps = 1)
    /\ [][(client.initialized /\ result'.op = "initialize" /\ calls' = calls + 1) =>
             UNCHANGED <<environ, client, apps, loads, resolved, remote, sends>>]_vars

\* C9 witness: get_access_token initialized the app, then initialize was called
\* and the app was not initialized again
C9_Witness ==
    /\ calls = 2
    /\ result.op = "initialize"
    /\ client.initialized
    /\ Len(remote) = 2
    /\ remote[1].call = "initialize_app"
    /\ remote[2].call = "get_access_token"

\* C10: with an explicit path given, the environment variable equals it when the
\* client initializes the SDK and at every SDK call after that; with none given
\* the environment variable never changes.
C10_ExplicitPathPropagated ==
    /\ [](Given(client.credentials_key_file) =>
            \A i \in InitializeAppCalls : \A j \in DOMAIN remote :
                j >= i => remote[j].env = client.credentials_key_file)
    /\ [][~Given(client.credentials_key_file) => environ' = environ]_vars

\* C10 witness: explicit path a.json, the client initialized the SDK and then
\* sent a message, the variable holding a.json at both calls
C10_Witness ==
    /\ client.credentials_key_file = PathA
    /\ Len(remote) = 2
    /\ remote[1].call = "initialize_app"
    /\ remote[2].call = "messaging.send"
    /\ remote[2].env = PathA
    /\ environ = PathA

====
